---- MODULE Spec2Model ----
(***************************************************************************)
(* Model of the highlight pipeline of src/highlights_ai: the window tiler  *)
(* (chunking.py), the moment parser (gemini_analysis.py), the timestamp    *)
(* normalizer, segment merger and duration capper (timestamps.py), the     *)
(* assembler (highlight_build.py) and run_pipeline (pipeline.py).          *)
(*                                                                         *)
(* Times are Python floats in the source.  Here a time is an integer       *)
(* number of ticks of half a second (Ticks), so the decimal literals the   *)
(* parser reads ("1.5") and the constants of the code (2.0 s, 1.0 s) are   *)
(* exact; the arithmetic is exact, as float arithmetic is on these values. *)
(***************************************************************************)
EXTENDS Integers, Sequences, FiniteSets, TLC

\* ------------------------------------------------------------- bounds
\* merge: segment times 0..MaxTime, at most MaxSegs segments, gaps 0..MaxGap
MaxTime == 4
MaxSegs == 3
MaxGap == 1
\* cap: segment times 0..MaxCapTime, at most MaxCapSegs segments, budgets 0..MaxCap
MaxCapTime == 4
MaxCapSegs == 3
MaxCap == 5
\* tiler: durations 1..MaxDuration, window lengths and overlaps up to MaxWindow
MaxDuration == 8
MaxWindow == 4
\* normalizer: windows of 1..MaxChunkEnd ticks starting at 0..MaxOrigStart,
\* at most MaxMoments moments with local times -1..MaxLocal
MaxChunkEnd == 2
MaxOrigStart == 1
MaxLocal == 3
MaxMoments == 2
\* parser: texts of at most MaxLines lines
MaxLines == 2
\* pipeline runs: source durations 1..MaxSourceDuration, chunk lengths
\* MinChunkLen..MaxChunkLen, overlaps 0..MaxChunkLen, budgets MinBudget, MaxBudget
MaxSourceDuration == 7
MinChunkLen == 3
MaxChunkLen == 4
MinBudget == 1
MaxBudget == 4

\* ------------------------------------------------------------ helpers
Min(a, b) == IF a <= b THEN a ELSE b
Max(a, b) == IF a >= b THEN a ELSE b

\* Seconds to ticks: one tick is half a second.
Ticks(sec) == 2 * sec

\* timestamps.py GlobalSegment
GlobalSegment(s, e, r) == [start_sec |-> s, end_sec |-> e, reason |-> r]

SegDuration(s) == s.end_sec - s.start_sec

RECURSIVE TotalDuration(_)
TotalDuration(segs) ==
    IF segs = <<>> THEN 0
    ELSE SegDuration(segs[1]) + TotalDuration(Tail(segs))

\* ---------------------------------------------------- timestamps.py: merge

\* The sort key of sorted(segments, key=lambda s: (s.start_sec, s.end_sec)).
KeyLeq(a, b) ==
    \/ a.start_sec < b.start_sec
    \/ a.start_sec = b.start_sec /\ a.end_sec <= b.end_sec

\* sorted() is stable: s goes after every element whose key is <= its key.
RECURSIVE InsertSorted(_, _)
InsertSorted(srt, s) ==
    IF srt = <<>> THEN <<s>>
    ELSE LET last == srt[Len(srt)] IN
         IF KeyLeq(last, s) THEN Append(srt, s)
         ELSE Append(InsertSorted(SubSeq(srt, 1, Len(srt) - 1), s), last)

RECURSIVE sorted_segs(_)
sorted_segs(segments) ==
    IF segments = <<>> THEN <<>>
    ELSE InsertSorted(sorted_segs(SubSeq(segments, 1, Len(segments) - 1)),
                      segments[Len(segments)])

Mergeable_strict(last, s, gap) == s.start_sec < last.end_sec + gap

\* if s.start_sec <= last.end_sec + gap_sec
Mergeable(last, s, gap) == s.start_sec <= last.end_sec + gap

MergeInto_noExtend(mrg, s, gap) ==
    LET last == mrg[Len(mrg)] IN
    IF Mergeable(last, s, gap) THEN mrg ELSE Append(mrg, s)

\* One iteration of the sweep: extend merged[-1] or append s.
MergeInto(mrg, s, gap) ==
    LET last == mrg[Len(mrg)] IN
    IF Mergeable(last, s, gap)
    THEN [mrg EXCEPT ![Len(mrg)] = GlobalSegment(last.start_sec,
                                                 Max(last.end_sec, s.end_sec),
                                                 last.reason)]
    ELSE Append(mrg, s)

RECURSIVE MergeLoop(_, _, _)
MergeLoop(mrg, rest, gap) ==
    IF rest = <<>> THEN mrg
    ELSE MergeLoop(MergeInto(mrg, rest[1], gap), Tail(rest), gap)

\* A sweep that compares each segment with its predecessor in the sorted input
\* instead of with the running merged segment.
RECURSIVE MergeLoopPrev(_, _, _, _)
MergeLoopPrev(mrg, prev, rest, gap) ==
    IF rest = <<>> THEN mrg
    ELSE LET s == rest[1]
             last == mrg[Len(mrg)]
             nxt == IF Mergeable(prev, s, gap)
                    THEN [mrg EXCEPT ![Len(mrg)] =
                              GlobalSegment(last.start_sec,
                                            Max(last.end_sec, s.end_sec),
                                            last.reason)]
                    ELSE Append(mrg, s)
         IN MergeLoopPrev(nxt, s, Tail(rest), gap)

merge_compare_previous_input(segments, gap) ==
    IF segments = <<>> THEN <<>>
    ELSE LET srt == sorted_segs(segments)
         IN MergeLoopPrev(<<srt[1]>>, srt[1], Tail(srt), gap)

merge_overlapping_or_adjacent(segments, gap) ==
    IF segments = <<>> THEN <<>>
    ELSE LET srt == sorted_segs(segments)
         IN MergeLoop(<<srt[1]>>, Tail(srt), gap)

\* ------------------------------------------------------ timestamps.py: cap

\* if remaining > 1.0:  # include at least 1 second
KeepRemainder(remaining) == remaining > Ticks(1)

Truncated_whole(s, remaining) == s

\* GlobalSegment(start_sec=s.start_sec, end_sec=s.start_sec + remaining, ...)
Truncated(s, remaining) ==
    GlobalSegment(s.start_sec, s.start_sec + remaining, s.reason)

\* A loop that skips a segment that does not fit and goes on to the next one.
RECURSIVE CapLoop_skip(_, _, _, _)
CapLoop_skip(result, total, rest, max_duration_sec) ==
    IF rest = <<>> THEN result
    ELSE LET s == rest[1]
             seg_dur == s.end_sec - s.start_sec
         IN IF total + seg_dur <= max_duration_sec
            THEN CapLoop_skip(Append(result, s), total + seg_dur, Tail(rest),
                              max_duration_sec)
            ELSE LET remaining == max_duration_sec - total
                 IN IF KeepRemainder(remaining)
                    THEN Append(result, Truncated(s, remaining))
                    ELSE CapLoop_skip(result, total, Tail(rest),
                                      max_duration_sec)

RECURSIVE CapLoop(_, _, _, _)
CapLoop(result, total, rest, max_duration_sec) ==
    IF rest = <<>> THEN result
    ELSE LET s == rest[1]
             seg_dur == s.end_sec - s.start_sec
         IN IF total + seg_dur <= max_duration_sec
            THEN CapLoop(Append(result, s), total + seg_dur, Tail(rest),
                         max_duration_sec)
            ELSE LET remaining == max_duration_sec - total
                 IN IF KeepRemainder(remaining)
                    THEN Append(result, Truncated(s, remaining))
                    ELSE result

cap_total_duration(segments, max_duration_sec) ==
    CapLoop(<<>>, 0, segments, max_duration_sec)

\* ------------------------------------------------ timestamps.py: normalize

\* gemini_analysis.py HighlightMoment
HighlightMoment(s, e, r) == [start_sec |-> s, end_sec |-> e, reason |-> r]

\* chunking.py ChunkMapping
ChunkMapping(s, e, idx) ==
    [original_video_start_time |-> s, original_video_end_time |-> e,
     chunk_start_time |-> 0, chunk_end_time |-> e - s, chunk_index |-> idx]

\* local_start = max(0.0, min(m.start_sec, chunk_end))
ClampStart(s, chunk_end) == Max(0, Min(s, chunk_end))

ClampEnd_unbounded(local_start, e, chunk_end) == Max(local_start, e)

\* local_end = max(local_start, min(m.end_sec, chunk_end))
ClampEnd(local_start, e, chunk_end) == Max(local_start, Min(e, chunk_end))

RECURSIVE normalize_to_original_time(_, _)
normalize_to_original_time(mapping, moms) ==
    IF moms = <<>> THEN <<>>
    ELSE LET m == moms[1]
             orig_start == mapping.original_video_start_time
             chunk_end == mapping.chunk_end_time
             local_start == ClampStart(m.start_sec, chunk_end)
             local_end == ClampEnd(local_start, m.end_sec, chunk_end)
             rest == normalize_to_original_time(mapping, Tail(moms))
         IN IF local_end <= local_start THEN rest
            ELSE <<GlobalSegment(orig_start + local_start,
                                 orig_start + local_end, m.reason)>> \o rest

\* ------------------------------------------- gemini_analysis.py: parse_moments
\* A response text is a sequence of lines (the text split at "\n"); a line is a
\* sequence of characters, each a one-character string.

LowerLetters == <<"a","b","c","d","e","f","g","h","i","j","k","l","m",
                  "n","o","p","q","r","s","t","u","v","w","x","y","z">>
UpperLetters == <<"A","B","C","D","E","F","G","H","I","J","K","L","M",
                  "N","O","P","Q","R","S","T","U","V","W","X","Y","Z">>

\* str.upper() on one character
Upper(c) ==
    IF \E k \in 1..Len(LowerLetters) : LowerLetters[k] = c
    THEN UpperLetters[CHOOSE k \in 1..Len(LowerLetters) : LowerLetters[k] = c]
    ELSE c

UpperSeq(cs) == [k \in 1..Len(cs) |-> Upper(cs[k])]

Digits == {"0","1","2","3","4","5","6","7","8","9"}
DigitVal(c) ==
    CASE c = "0" -> 0 [] c = "1" -> 1 [] c = "2" -> 2 [] c = "3" -> 3
      [] c = "4" -> 4 [] c = "5" -> 5 [] c = "6" -> 6 [] c = "7" -> 7
      [] c = "8" -> 8 [] c = "9" -> 9

IsSpace(c) == c = " "
\* the character class [\d.]
IsNumChar(c) == c \in Digits \/ c = "."

SENTINEL == <<"N","O","N","E">>
DESIGNATOR == <<"M","O","M","E","N","T",":">>

\* "NONE" in line.upper()
ContainsSentinel(line) ==
    \E k \in 1..(Len(line) - Len(SENTINEL) + 1) :
        UpperSeq(SubSeq(line, k, k + Len(SENTINEL) - 1)) = SENTINEL

\* "NONE" in text.upper(): the marker holds no line break, so it lies in one line.
TextHasSentinel(text) == \E n \in 1..Len(text) : ContainsSentinel(text[n])

\* str.strip()
RECURSIVE LStrip(_)
LStrip(cs) == IF cs # <<>> /\ IsSpace(cs[1]) THEN LStrip(Tail(cs)) ELSE cs
RECURSIVE RStrip(_)
RStrip(cs) ==
    IF cs # <<>> /\ IsSpace(cs[Len(cs)])
    THEN RStrip(SubSeq(cs, 1, Len(cs) - 1)) ELSE cs
Strip(cs) == RStrip(LStrip(cs))

\* The first position >= p of line that holds no white space (Len + 1 if none).
RECURSIVE SkipSpace(_, _)
SkipSpace(line, p) ==
    IF p <= Len(line) /\ IsSpace(line[p]) THEN SkipSpace(line, p + 1) ELSE p

\* The first position >= p of line that holds no [\d.] character.
RECURSIVE SkipNum(_, _)
SkipNum(line, p) ==
    IF p <= Len(line) /\ IsNumChar(line[p]) THEN SkipNum(line, p + 1) ELSE p

\* re.match(r"MOMENT:\s*([\d.]+)\s+([\d.]+)\s+(.+)", line, re.I) on a stripped
\* line.  The classes \s and [\d.] are disjoint, so the greedy match is the only
\* one: a1..b1 is group 1, a2..b2 group 2, a3.. group 3.
Match(line) ==
    LET n  == Len(DESIGNATOR)
        a1 == SkipSpace(line, n + 1)
        b1 == SkipNum(line, a1)
        a2 == SkipSpace(line, b1)
        b2 == SkipNum(line, a2)
        a3 == SkipSpace(line, b2)
        ok == /\ Len(line) >= n
              /\ UpperSeq(SubSeq(line, 1, n)) = DESIGNATOR
              /\ b1 > a1 /\ a2 > b1 /\ b2 > a2 /\ a3 > b2 /\ a3 <= Len(line)
    IN [ok |-> ok,
        g1 |-> IF ok THEN SubSeq(line, a1, b1 - 1) ELSE <<>>,
        g2 |-> IF ok THEN SubSeq(line, a2, b2 - 1) ELSE <<>>,
        g3 |-> IF ok THEN SubSeq(line, a3, Len(line)) ELSE <<>>]

CountDots(tok) == Cardinality({k \in 1..Len(tok) : tok[k] = "."})
CountDigits(tok) == Cardinality({k \in 1..Len(tok) : tok[k] \in Digits})

\* float(tok) on a token of [\d.]+ raises ValueError unless the token holds at
\* most one dot and at least one digit.
FloatRaises(tok) == CountDots(tok) > 1 \/ CountDigits(tok) = 0

RECURSIVE DecimalValue(_)
DecimalValue(ds) ==
    IF ds = <<>> THEN 0
    ELSE 10 * DecimalValue(SubSeq(ds, 1, Len(ds) - 1)) + DigitVal(ds[Len(ds)])

RECURSIVE Pow10(_)
Pow10(k) == IF k = 0 THEN 1 ELSE 10 * Pow10(k - 1)

\* float(tok) in ticks, for a token float() accepts.  Exact for the fractions
\* .0 and .5, the only ones the texts of this model hold.
FloatOf(tok) ==
    LET dot  == IF CountDots(tok) = 0 THEN Len(tok) + 1
                ELSE CHOOSE k \in 1..Len(tok) : tok[k] = "."
        ip   == SubSeq(tok, 1, dot - 1)
        fp   == SubSeq(tok, dot + 1, Len(tok))
    IN Ticks(DecimalValue(ip)) + (Ticks(DecimalValue(fp)) \div Pow10(Len(fp)))

\* if end > start and start >= 0
KeepMoment(start, end) == end > start /\ start >= 0

\* The loop of parse_moments over the lines: the moments, or the ValueError
\* that float() raises on the first matched line with a malformed number.
RECURSIVE ParseLines(_, _)
ParseLines(lines, acc) ==
    IF lines = <<>> THEN [raised |-> FALSE, moments |-> acc]
    ELSE LET line == Strip(lines[1])
             m == Match(line)
         IN IF ~m.ok THEN ParseLines(Tail(lines), acc)
            ELSE IF FloatRaises(m.g1) \/ FloatRaises(m.g2)
            THEN [raised |-> TRUE, moments |-> <<>>]
            ELSE LET start == FloatOf(m.g1)
                     end == FloatOf(m.g2)
                     reason == Strip(m.g3)
                 IN ParseLines(Tail(lines),
                        IF KeepMoment(start, end)
                        THEN Append(acc, HighlightMoment(start, end, reason))
                        ELSE acc)

parse_moments(text) ==
    IF text = <<>> \/ TextHasSentinel(text)
    THEN [raised |-> FALSE, moments |-> <<>>]
    ELSE ParseLines(text, <<>>)

\* ------------------------------------------------------------- the state
VARIABLES
    pc,                   \* position in run_pipeline and the functions it calls
    config,               \* HighlightConfig: the windowing and budget fields
    env,                  \* the file system and the source video, as the run finds them
    duration_sec,         \* build_chunks_with_overlap: duration_sec
    start,                \* build_chunks_with_overlap: start
    chunks,               \* build_chunks_with_overlap: chunks
    mappings,             \* build_chunk_mappings: mappings
    i,                    \* the index of the enumerate() loop under way (0-based)
    raw,                  \* get_chunk_highlights: raw
    moments,              \* get_chunk_highlights: moments
    all_global_segments,  \* run_pipeline: all_global_segments
    gap_sec,              \* merge_overlapping_or_adjacent: gap_sec
    merged,               \* run_pipeline: merged
    capped,               \* run_pipeline: capped
    segment_files,        \* build_highlight_video: len(segment_files)
    output_file,          \* what lies at highlight_path
    calls,                \* the external collaborators invoked so far, in order
    error,                \* the exception that ended the run, and where it was raised
    wait                  \* _wait_for_file_active: the clock, deadline and last poll

vars == <<pc, config, env, duration_sec, start, chunks, mappings, i, raw, moments,
          all_global_segments, gap_sec, merged, capped, segment_files,
          output_file, calls, error, wait>>

\* Before analyze_chunk_with_gemini waits: no deadline set, no poll issued
\* (file_resource = None).  now is the reading of time.monotonic(), in seconds.
NoWait == [now |-> 0, deadline |-> 0, state |-> "none", polled_at |-> -1]

NoError == [type |-> "none", at |-> "none"]

\* raise: the exception propagates out of run_pipeline, which catches nothing.
Raise(type) ==
    /\ pc' = "failed"
    /\ error' = [type |-> type, at |-> pc]

\* def merge_overlapping_or_adjacent(segments, gap_sec: float = 2.0)
DEFAULT_GAP_SEC == Ticks(2)

\* --------------------------------------------- chunking.py: the window tiler

ChunkEnd_unclipped(s, chunk_duration_sec, d) == s + chunk_duration_sec

\* end = min(start + chunk_duration_sec, duration_sec)
ChunkEnd(s, chunk_duration_sec, d) == Min(s + chunk_duration_sec, d)

\* step = chunk_duration_sec - overlap_sec
Step(cfg) == cfg.chunk_duration_sec - cfg.chunk_overlap_sec

\* build_chunks_with_overlap, entry: the check of the overlap, then the locals.
TilerEnter ==
    /\ pc = "tile_enter"
    /\ IF config.chunk_overlap_sec >= config.chunk_duration_sec
       THEN /\ Raise("ValueError")
            /\ UNCHANGED <<start, chunks>>
       ELSE /\ pc' = "tile_loop"
            /\ start' = 0
            /\ chunks' = <<>>
            /\ error' = error
    /\ UNCHANGED <<wait, config, env, duration_sec, mappings, i, raw, moments,
                   all_global_segments, gap_sec, merged, capped, segment_files,
                   output_file, calls>>

\* build_chunks_with_overlap, one test of the while condition and one iteration;
\* the return hands the intervals to the loop of build_chunk_mappings.
TilerLoop ==
    /\ pc = "tile_loop"
    /\ IF start < duration_sec
       THEN LET end == ChunkEnd(start, config.chunk_duration_sec, duration_sec) IN
            /\ chunks' = Append(chunks, <<start, end>>)
            /\ IF end >= duration_sec
               THEN pc' = "extract" /\ start' = start
               ELSE pc' = "tile_loop" /\ start' = start + Step(config)
       ELSE /\ pc' = "extract"
            /\ UNCHANGED <<start, chunks>>
    /\ UNCHANGED <<wait, config, env, duration_sec, mappings, i, raw, moments,
                   all_global_segments, gap_sec, merged, capped, segment_files,
                   output_file, calls, error>>

\* ------------------------------------------------ the analyzer's responses

DigitChar(n) == CHOOSE c \in Digits : DigitVal(c) = n

\* The decimal literal of t ticks, t < 20: "3" for 6 ticks, "3.5" for 7.
Literal(t) ==
    IF t % 2 = 0 THEN <<DigitChar(t \div 2)>>
    ELSE <<DigitChar(t \div 2), ".", "5">>

SP == <<" ">>
MOMENT_UPPER == <<"M","O","M","E","N","T",":">>
MOMENT_LOWER == <<"m","o","m","e","n","t",":">>
GOAL == <<"g","o","a","l">>
SAVE == <<"s","a","v","e">>
MULTIDOT == <<"1",".","2",".","3">>

MomentLine(head, a, b, word) == head \o a \o SP \o b \o SP \o word

\* What the analyzer may answer for a window in a pipeline run: the sentinel, a
\* moment in the window's first tick, a moment running past the window's end,
\* and a moment whose start holds several dots.
Responses(mapping) ==
    { << SENTINEL >>,
      << MomentLine(MOMENT_UPPER \o SP, Literal(0), Literal(1), GOAL) >>,
      << MomentLine(MOMENT_LOWER, Literal(0),
                    Literal(mapping.chunk_end_time + 1), SAVE) >>,
      << MomentLine(MOMENT_UPPER \o SP, MULTIDOT, Literal(4), SAVE) >> }

\* An analyzer that reports, for every window, one moment from local 0 to the
\* window's local duration.
WholeWindow(mapping) ==
    { << MomentLine(MOMENT_UPPER \o SP, Literal(0),
                    Literal(mapping.chunk_end_time), GOAL) >> }

\* The texts an analyzer may return for a window.
Answers(analyzer, mapping) ==
    IF analyzer = "whole_window" THEN WholeWindow(mapping) ELSE Responses(mapping)

\* --------------------------------------------------- pipeline.py: run_pipeline

\* run_pipeline, lines 33-43: the checks of the source file and the credential,
\* then the output directories.
Validate ==
    /\ pc = "validate"
    /\ IF ~env.video_is_file THEN Raise("FileNotFoundError")
       ELSE IF ~env.has_api_key THEN Raise("ValueError")
       ELSE pc' = "probe" /\ error' = error
    /\ UNCHANGED <<wait, config, env, duration_sec, start, chunks, mappings, i, raw,
                   moments, all_global_segments, gap_sec, merged, capped,
                   segment_files, output_file, calls>>

\* build_chunk_mappings: get_video_duration_sec runs ffprobe (check=True).
Probe ==
    /\ pc = "probe"
    /\ calls' = Append(calls, "prober")
    /\ \E ok \in BOOLEAN :
         IF ok
         THEN /\ duration_sec' = env.source_duration
              /\ pc' = "tile_enter"
              /\ error' = error
         ELSE /\ Raise("CalledProcessError")
              /\ duration_sec' = duration_sec
    /\ UNCHANGED <<wait, config, env, start, chunks, mappings, i, raw, moments,
                   all_global_segments, gap_sec, merged, capped, segment_files,
                   output_file>>

\* build_chunk_mappings: the loop over the intervals; extract_chunk_video runs
\* ffmpeg (check=True).  After the last interval run_pipeline's loop starts.
ExtractChunk ==
    /\ pc = "extract"
    /\ IF i < Len(chunks)
       THEN /\ calls' = Append(calls, "extractor")
            /\ \E ok \in BOOLEAN :
                 IF ok
                 THEN /\ mappings' = Append(mappings,
                              ChunkMapping(chunks[i + 1][1], chunks[i + 1][2], i))
                      /\ i' = i + 1
                      /\ pc' = pc
                      /\ error' = error
                 ELSE /\ Raise("CalledProcessError")
                      /\ UNCHANGED <<mappings, i>>
       ELSE /\ pc' = "analyze"
            /\ i' = 0
            /\ UNCHANGED <<mappings, calls, error>>
    /\ UNCHANGED <<wait, config, env, duration_sec, start, chunks, raw, moments,
                   all_global_segments, gap_sec, merged, capped, segment_files,
                   output_file>>

AnalyzerErrors == {"RuntimeError", "TimeoutError"}

\* run_pipeline's loop over the mappings: get_chunk_highlights calls
\* analyze_chunk_with_gemini, which returns the response text or raises (upload
\* or processing failure: RuntimeError; ready-wait deadline: TimeoutError).
\* analyzer names the analyzer answering, errors the exceptions it may raise.
AnalyzeWith(analyzer, errors) ==
    /\ pc = "analyze"
    /\ IF i < Len(mappings)
       THEN /\ calls' = Append(calls, "analyzer")
            /\ \/ \E text \in Answers(analyzer, mappings[i + 1]) :
                     /\ raw' = text
                     /\ pc' = "parse"
                     /\ error' = error
               \/ \E e \in errors :
                     /\ Raise(e)
                     /\ raw' = raw
       ELSE /\ pc' = "merge"
            /\ UNCHANGED <<raw, calls, error>>
    /\ UNCHANGED <<wait, config, env, duration_sec, start, chunks, mappings, i,
                   moments, all_global_segments, gap_sec, merged, capped,
                   segment_files, output_file>>

AnalyzeChunk == AnalyzeWith("any", AnalyzerErrors)

\* get_chunk_highlights: moments = parse_moments(raw)
ParseMoments ==
    /\ pc = "parse"
    /\ LET r == parse_moments(raw) IN
       IF r.raised
       THEN /\ Raise("ValueError")
            /\ moments' = moments
       ELSE /\ moments' = r.moments
            /\ pc' = "normalize"
            /\ error' = error
    /\ UNCHANGED <<wait, config, env, duration_sec, start, chunks, mappings, i, raw,
                   all_global_segments, gap_sec, merged, capped, segment_files,
                   output_file, calls>>

\* A loop whose body runs on to the merge instead of the next window.
NormalizeChunk_thenMerge ==
    /\ pc = "normalize"
    /\ all_global_segments' = all_global_segments \o
            normalize_to_original_time(mappings[i + 1], moments)
    /\ i' = i + 1
    /\ pc' = "merge"
    /\ UNCHANGED <<wait, config, env, duration_sec, start, chunks, mappings, raw,
                   moments, gap_sec, merged, capped, segment_files, output_file,
                   calls, error>>

\* segments = normalize_to_original_time(m, moments)
\* all_global_segments.extend(segments)
NormalizeChunk ==
    /\ pc = "normalize"
    /\ all_global_segments' = all_global_segments \o
            normalize_to_original_time(mappings[i + 1], moments)
    /\ i' = i + 1
    /\ pc' = "analyze"
    /\ UNCHANGED <<wait, config, env, duration_sec, start, chunks, mappings, raw,
                   moments, gap_sec, merged, capped, segment_files, output_file,
                   calls, error>>

\* merged = merge_overlapping_or_adjacent(all_global_segments)
MergeSegments ==
    /\ pc = "merge"
    /\ merged' = merge_overlapping_or_adjacent(all_global_segments, gap_sec)
    /\ pc' = "cap"
    /\ UNCHANGED <<wait, config, env, duration_sec, start, chunks, mappings, i, raw,
                   moments, all_global_segments, gap_sec, capped, segment_files,
                   output_file, calls, error>>

\* capped = cap_total_duration(merged, config.highlight_max_duration_sec)
CapSegments ==
    /\ pc = "cap"
    /\ capped' = cap_total_duration(merged, config.highlight_max_duration_sec)
    /\ pc' = "assemble"
    /\ UNCHANGED <<wait, config, env, duration_sec, start, chunks, mappings, i, raw,
                   moments, all_global_segments, gap_sec, merged, segment_files,
                   output_file, calls, error>>

\* ------------------------------------- highlight_build.py: build_highlight_video

\* The loop and the choice of the path without the check that there is a segment.
ExtractSegment_unchecked ==
    /\ pc = "assemble"
    /\ IF segment_files < Len(capped)
       THEN /\ calls' = Append(calls, "assembler")
            /\ \E ok \in BOOLEAN :
                 IF ok
                 THEN /\ segment_files' = segment_files + 1
                      /\ pc' = pc
                      /\ error' = error
                 ELSE /\ Raise("CalledProcessError")
                      /\ segment_files' = segment_files
       ELSE /\ UNCHANGED <<segment_files, calls, error>>
            /\ IF segment_files = 1 THEN pc' = "fade" ELSE pc' = "concat"
    /\ UNCHANGED <<wait, config, env, duration_sec, start, chunks, mappings, i,
                   raw, moments, all_global_segments, gap_sec, merged, capped,
                   output_file>>

\* The loop over the segments (extract_segment runs ffmpeg, check=True), then
\* the check that there is a segment and the choice of the single-segment or
\* the concat path.
ExtractSegment ==
    /\ pc = "assemble"
    /\ IF segment_files < Len(capped)
       THEN /\ calls' = Append(calls, "assembler")
            /\ \E ok \in BOOLEAN :
                 IF ok
                 THEN /\ segment_files' = segment_files + 1
                      /\ pc' = pc
                      /\ error' = error
                 ELSE /\ Raise("CalledProcessError")
                      /\ segment_files' = segment_files
       ELSE /\ UNCHANGED <<segment_files, calls>>
            /\ IF segment_files = 0 THEN Raise("ValueError")
               ELSE IF segment_files = 1 THEN pc' = "fade" /\ error' = error
               ELSE pc' = "concat" /\ error' = error
    /\ UNCHANGED <<wait, config, env, duration_sec, start, chunks, mappings, i, raw,
                   moments, all_global_segments, gap_sec, merged, capped,
                   output_file>>

\* ffmpeg -f concat ... temp_concat (check=True), in the work directory.
Concat ==
    /\ pc = "concat"
    /\ calls' = Append(calls, "assembler")
    /\ \E ok \in BOOLEAN :
         IF ok THEN pc' = "probe_concat" /\ error' = error
         ELSE Raise("CalledProcessError")
    /\ UNCHANGED <<wait, config, env, duration_sec, start, chunks, mappings, i, raw,
                   moments, all_global_segments, gap_sec, merged, capped,
                   segment_files, output_file>>

\* ffprobe temp_concat (check=True)
ProbeConcat ==
    /\ pc = "probe_concat"
    /\ calls' = Append(calls, "assembler")
    /\ \E ok \in BOOLEAN :
         IF ok THEN pc' = "fade" /\ error' = error
         ELSE Raise("CalledProcessError")
    /\ UNCHANGED <<wait, config, env, duration_sec, start, chunks, mappings, i, raw,
                   moments, all_global_segments, gap_sec, merged, capped,
                   segment_files, output_file>>

\* What a failed ffmpeg -y ... output_path may leave at output_path: nothing new
\* (it failed before it opened its output) or the part it had written.
AfterFailedWrite(before) == {before, "partial"}

\* The fade pass: ffmpeg -y -i <input> ... output_path (check=True); ffmpeg
\* writes output_path itself.  On success build_highlight_video returns and
\* run_pipeline returns the summary.
Fade ==
    /\ pc = "fade"
    /\ calls' = Append(calls, "assembler")
    /\ \E ok \in BOOLEAN :
         IF ok
         THEN /\ output_file' = "complete"
              /\ pc' = "done"
              /\ error' = error
         ELSE /\ output_file' \in AfterFailedWrite(output_file)
              /\ Raise("CalledProcessError")
    /\ UNCHANGED <<wait, config, env, duration_sec, start, chunks, mappings, i, raw,
                   moments, all_global_segments, gap_sec, merged, capped,
                   segment_files>>

\* ------------------------------------------------------- the pipeline runs

Configs ==
    [chunk_duration_sec : MinChunkLen..MaxChunkLen,
     chunk_overlap_sec : 0..MaxChunkLen,
     highlight_max_duration_sec : {MinBudget, MaxBudget}]

Envs ==
    [video_is_file : BOOLEAN, has_api_key : BOOLEAN,
     source_duration : 1..MaxSourceDuration]

\* The locals of a run before run_pipeline has set them.
Fresh ==
    /\ duration_sec = 0
    /\ start = 0
    /\ chunks = <<>>
    /\ mappings = <<>>
    /\ i = 0
    /\ raw = <<>>
    /\ moments = <<>>
    /\ all_global_segments = <<>>
    /\ gap_sec = DEFAULT_GAP_SEC
    /\ merged = <<>>
    /\ capped = <<>>
    /\ segment_files = 0
    /\ output_file = "absent"
    /\ calls = <<>>
    /\ error = NoError
    /\ wait = NoWait

Init ==
    /\ pc = "validate"
    /\ config \in Configs
    /\ env \in Envs
    /\ Fresh

Next ==
    \/ Validate
    \/ Probe
    \/ TilerEnter
    \/ TilerLoop
    \/ ExtractChunk
    \/ AnalyzeChunk
    \/ ParseMoments
    \/ NormalizeChunk
    \/ MergeSegments
    \/ CapSegments
    \/ ExtractSegment
    \/ Concat
    \/ ProbeConcat
    \/ Fade

Spec == Init /\ [][Next]_vars

\* ------------------------------------ the functions on inputs of their own

\* The sequences over S of at most n elements.
SeqsUpTo(S, n) == UNION {[1..k -> S] : k \in 0..n}

\* The intervals (start, end) with end > start and times 0..maxTime.
Intervals(maxTime) ==
    {iv \in (0..maxTime) \X (0..maxTime) : iv[2] > iv[1]}

\* The code never reads a reason: it only copies it.  Each input carries the
\* reason that names its position, so the outputs show which input's reason
\* they hold.
ReasonAt(k) == ToString(k)

LabelledSegments(ivs) ==
    [k \in DOMAIN ivs |-> GlobalSegment(ivs[k][1], ivs[k][2], ReasonAt(k))]

LabelledMoments(ivs) ==
    [k \in DOMAIN ivs |-> HighlightMoment(ivs[k][1], ivs[k][2], ReasonAt(k))]

SegmentLists(maxTime, maxLen) ==
    {LabelledSegments(ivs) : ivs \in SeqsUpTo(Intervals(maxTime), maxLen)}

SomeConfig ==
    [chunk_duration_sec |-> MaxChunkLen, chunk_overlap_sec |-> 0,
     highlight_max_duration_sec |-> MaxBudget]

SomeEnv ==
    [video_is_file |-> TRUE, has_api_key |-> TRUE,
     source_duration |-> MaxSourceDuration]

\* build_chunks_with_overlap on every duration, window length and overlap.
InitTile ==
    /\ pc = "tile_enter"
    /\ config \in [chunk_duration_sec : 1..MaxWindow,
                   chunk_overlap_sec : 0..MaxWindow,
                   highlight_max_duration_sec : {MaxBudget}]
    /\ duration_sec \in 1..MaxDuration
    /\ env = [SomeEnv EXCEPT !.source_duration = duration_sec]
    /\ start = 0 /\ chunks = <<>> /\ mappings = <<>> /\ i = 0
    /\ raw = <<>> /\ moments = <<>> /\ all_global_segments = <<>>
    /\ gap_sec = DEFAULT_GAP_SEC /\ merged = <<>> /\ capped = <<>>
    /\ segment_files = 0 /\ output_file = "absent"
    /\ calls = <<"prober">> /\ error = NoError
    /\ wait = NoWait

NextTile == TilerEnter \/ TilerLoop

SpecTile == InitTile /\ [][NextTile]_vars

\* The loop is the only thing running: it takes its next step.
FairSpecTile == SpecTile /\ WF_vars(NextTile)

\* merge_overlapping_or_adjacent on every list of segments and every tolerance.
InitMerge ==
    /\ pc = "merge"
    /\ all_global_segments \in SegmentLists(MaxTime, MaxSegs)
    /\ gap_sec \in 0..MaxGap
    /\ config = SomeConfig /\ env = SomeEnv
    /\ duration_sec = 0 /\ start = 0 /\ chunks = <<>> /\ mappings = <<>>
    /\ i = 0 /\ raw = <<>> /\ moments = <<>>
    /\ merged = <<>> /\ capped = <<>>
    /\ segment_files = 0 /\ output_file = "absent"
    /\ calls = <<>> /\ error = NoError
    /\ wait = NoWait

NextMerge == MergeSegments

SpecMerge == InitMerge /\ [][NextMerge]_vars

\* cap_total_duration on every list of segments and every budget.
InitCap ==
    /\ pc = "cap"
    /\ merged \in SegmentLists(MaxCapTime, MaxCapSegs)
    /\ config \in [chunk_duration_sec : {MaxChunkLen},
                   chunk_overlap_sec : {0},
                   highlight_max_duration_sec : 0..MaxCap]
    /\ env = SomeEnv
    /\ duration_sec = 0 /\ start = 0 /\ chunks = <<>> /\ mappings = <<>>
    /\ i = 0 /\ raw = <<>> /\ moments = <<>> /\ all_global_segments = <<>>
    /\ gap_sec = DEFAULT_GAP_SEC /\ capped = <<>>
    /\ segment_files = 0 /\ output_file = "absent"
    /\ calls = <<>> /\ error = NoError
    /\ wait = NoWait

NextCap == CapSegments

SpecCap == InitCap /\ [][NextCap]_vars

\* Local times as an analyzer may report them: before the window, in it, past it,
\* in either order.
LocalTimes == ((-1)..MaxLocal) \X ((-1)..MaxLocal)

\* normalize_to_original_time on every window and every list of moments.
InitNorm ==
    /\ pc = "normalize"
    /\ \E s \in 0..MaxOrigStart, d \in 1..MaxChunkEnd :
            mappings = <<ChunkMapping(s, s + d, 0)>>
    /\ moments \in {LabelledMoments(ivs) : ivs \in SeqsUpTo(LocalTimes, MaxMoments)}
    /\ config = SomeConfig /\ env = SomeEnv
    /\ duration_sec = 0 /\ start = 0 /\ chunks = <<>>
    /\ i = 0 /\ raw = <<>> /\ all_global_segments = <<>>
    /\ gap_sec = DEFAULT_GAP_SEC /\ merged = <<>> /\ capped = <<>>
    /\ segment_files = 0 /\ output_file = "absent"
    /\ calls = <<>> /\ error = NoError
    /\ wait = NoWait

NextNorm == NormalizeChunk

SpecNorm == InitNorm /\ [][NextNorm]_vars

HEADS == {MOMENT_UPPER \o SP, MOMENT_LOWER, SP \o MOMENT_UPPER \o SP \o SP}
NUMBERS == {Literal(2), Literal(3), Literal(4), <<".">>, MULTIDOT, <<"-", "1">>}
WORDS == {GOAL, <<"n","o","n","e">>}

\* Lines of a response: moment lines over HEADS, NUMBERS and WORDS, a moment
\* line without description, the sentinel alone and a line of prose.
LINES ==
    {MomentLine(h, a, b, w) : h \in HEADS, a \in NUMBERS, b \in NUMBERS, w \in WORDS}
    \cup {MOMENT_UPPER \o SP \o Literal(2) \o SP \o Literal(4), SENTINEL, GOAL}

\* parse_moments on every text of at most MaxLines lines.
InitParse ==
    /\ pc = "parse"
    /\ raw \in SeqsUpTo(LINES, MaxLines)
    /\ config = SomeConfig /\ env = SomeEnv
    /\ duration_sec = 0 /\ start = 0 /\ chunks = <<>>
    /\ mappings = <<ChunkMapping(0, MaxChunkLen, 0)>>
    /\ i = 0 /\ moments = <<>> /\ all_global_segments = <<>>
    /\ gap_sec = DEFAULT_GAP_SEC /\ merged = <<>> /\ capped = <<>>
    /\ segment_files = 0 /\ output_file = "absent"
    /\ calls = <<"analyzer">> /\ error = NoError
    /\ wait = NoWait

NextParse == ParseMoments

SpecParse == InitParse /\ [][NextParse]_vars

AnalyzeWhole == AnalyzeWith("whole_window", {})

\* Tiling, extraction, analysis, normalization, merge and cap of run_pipeline
\* on every duration, window length, overlap and budget, with that analyzer.
InitEndToEnd ==
    /\ pc = "tile_enter"
    /\ config \in [chunk_duration_sec : 1..MaxWindow,
                   chunk_overlap_sec : 0..MaxWindow,
                   highlight_max_duration_sec : 0..MaxCap]
    /\ duration_sec \in 1..MaxDuration
    /\ env = [SomeEnv EXCEPT !.source_duration = duration_sec]
    /\ start = 0 /\ chunks = <<>> /\ mappings = <<>> /\ i = 0
    /\ raw = <<>> /\ moments = <<>> /\ all_global_segments = <<>>
    /\ gap_sec = DEFAULT_GAP_SEC /\ merged = <<>> /\ capped = <<>>
    /\ segment_files = 0 /\ output_file = "absent"
    /\ calls = <<"prober">> /\ error = NoError
    /\ wait = NoWait

NextEndToEnd ==
    \/ TilerEnter
    \/ TilerLoop
    \/ ExtractChunk
    \/ AnalyzeWhole
    \/ ParseMoments
    \/ NormalizeChunk
    \/ MergeSegments
    \/ CapSegments

SpecEndToEnd == InitEndToEnd /\ [][NextEndToEnd]_vars

\* ------------------------- gemini_analysis.py: analyze_chunk_with_gemini inside
\* AnalyzeChunk takes the call to analyze_chunk_with_gemini as one step; these
\* are the steps inside it, on a clock in seconds.

FILE_ACTIVE_WAIT_TIMEOUT_SEC == 300
FILE_ACTIVE_POLL_INTERVAL_SEC == 5

\* How long a poll may take, how much longer than asked a sleep may last, and
\* the clock's reading when the call starts.
MaxPollLatency == 2
MaxOversleep == 1
MaxClockStart == 1

\* What a poll may observe: the state of the file resource, "none" when the
\* resource carries no state.
FileStates == {"PROCESSING", "ACTIVE", "FAILED", "none"}

\* while time.monotonic() < deadline
BeforeDeadline(now, deadline) == now < deadline

IsActive_notFailed(state) == state # "FAILED"

\* if state == active_val or state == "ACTIVE"
IsActive(state) == state = "ACTIVE"

\* if state == failed_val or state == "FAILED"
IsFailed(state) == state = "FAILED"

\* The check of the chunk file, the upload, the check of the file name.
Upload ==
    /\ pc = "upload"
    /\ \E outcome \in {"missing", "unnamed", "named"} :
         CASE outcome = "missing" -> Raise("FileNotFoundError")
           [] outcome = "unnamed" -> Raise("RuntimeError")
           [] outcome = "named" -> pc' = "wait_enter" /\ error' = error
    /\ UNCHANGED <<wait, config, env, duration_sec, start, chunks, mappings, i,
                   raw, moments, all_global_segments, gap_sec, merged, capped,
                   segment_files, output_file, calls>>

\* deadline = time.monotonic() + FILE_ACTIVE_WAIT_TIMEOUT_SEC; file_resource = None
WaitEnter ==
    /\ pc = "wait_enter"
    /\ wait' = [wait EXCEPT !.deadline = wait.now + FILE_ACTIVE_WAIT_TIMEOUT_SEC,
                            !.state = "none", !.polled_at = -1]
    /\ pc' = "wait_loop"
    /\ UNCHANGED <<config, env, duration_sec, start, chunks, mappings, i, raw,
                   moments, all_global_segments, gap_sec, merged, capped,
                   segment_files, output_file, calls, error>>

\* One test of the while condition and one iteration: the poll, issued at the
\* clock reading just tested and answered latency seconds later, the two tests
\* of the state, the sleep; or, the condition false, the TimeoutError.
WaitPoll ==
    /\ pc = "wait_loop"
    /\ IF BeforeDeadline(wait.now, wait.deadline)
       THEN \E state \in FileStates, latency \in 0..MaxPollLatency,
               oversleep \in 0..MaxOversleep :
              LET polled == [wait EXCEPT !.state = state, !.polled_at = wait.now,
                                         !.now = wait.now + latency]
              IN IF IsActive(state)
                 THEN wait' = polled /\ pc' = "generate" /\ error' = error
                 ELSE IF IsFailed(state)
                 THEN wait' = polled /\ Raise("RuntimeError")
                 ELSE /\ wait' = [polled EXCEPT !.now =
                                     @ + FILE_ACTIVE_POLL_INTERVAL_SEC + oversleep]
                      /\ pc' = pc
                      /\ error' = error
       ELSE /\ Raise("TimeoutError")
            /\ wait' = wait
    /\ UNCHANGED <<config, env, duration_sec, start, chunks, mappings, i, raw,
                   moments, all_global_segments, gap_sec, merged, capped,
                   segment_files, output_file, calls>>

\* response = client.models.generate_content(...); the text, or "NONE" for an
\* empty response, goes back to get_chunk_highlights.
Generate ==
    /\ pc = "generate"
    /\ calls' = Append(calls, "analyzer")
    /\ \E text \in Responses(mappings[i + 1]) : raw' = text
    /\ pc' = "parse"
    /\ UNCHANGED <<wait, config, env, duration_sec, start, chunks, mappings, i,
                   moments, all_global_segments, gap_sec, merged, capped,
                   segment_files, output_file, error>>

\* analyze_chunk_with_gemini on one window, for every course of the upload, the
\* file's states and the clock.
InitWait ==
    /\ pc = "upload"
    /\ wait \in [now : 0..MaxClockStart, deadline : {0}, state : {"none"},
                 polled_at : {-1}]
    /\ config = SomeConfig /\ env = SomeEnv
    /\ duration_sec = 0 /\ start = 0 /\ chunks = <<>>
    /\ mappings = <<ChunkMapping(0, MaxChunkLen, 0)>>
    /\ i = 0 /\ raw = <<>> /\ moments = <<>> /\ all_global_segments = <<>>
    /\ gap_sec = DEFAULT_GAP_SEC /\ merged = <<>> /\ capped = <<>>
    /\ segment_files = 0 /\ output_file = "absent"
    /\ calls = <<>> /\ error = NoError

NextWait == Upload \/ WaitEnter \/ WaitPoll \/ Generate

SpecWait == InitWait /\ [][NextWait]_vars

\* Every call of the client returns and every sleep ends: the function takes
\* its next step.
FairSpecWait == SpecWait /\ WF_vars(NextWait)

\* ================================================================ claims

Range(f) == {f[k] : k \in DOMAIN f}

\* ---- C1: build_chunks_with_overlap
TilerValid ==
    /\ duration_sec > 0
    /\ config.chunk_duration_sec > 0
    /\ config.chunk_overlap_sec >= 0
    /\ config.chunk_overlap_sec < config.chunk_duration_sec

TilerReturned == pc = "extract" /\ i = 0 /\ mappings = <<>>

TilerPost ==
    /\ Len(chunks) >= 1
    /\ chunks[1][1] = 0
    /\ \A k \in 1..Len(chunks) : chunks[k][2] > chunks[k][1]
    /\ \A k \in 2..Len(chunks) :
          /\ chunks[k][1] > chunks[k - 1][1]
          /\ chunks[k][1] <= chunks[k - 1][2]
    /\ \A t \in 0..(duration_sec - 1) :
          \E k \in 1..Len(chunks) : chunks[k][1] <= t /\ t < chunks[k][2]
    /\ \A k \in 1..Len(chunks) : chunks[k][2] <= duration_sec
    /\ chunks[Len(chunks)][2] = duration_sec
    /\ \A k \in 1..(Len(chunks) - 1) : chunks[k][2] # duration_sec

\* C1: for duration > 0, windowLen > 0 and 0 <= overlap < windowLen the tiler
\* terminates, and the list it returns is non-empty and ordered, starts at 0,
\* holds only windows with end > start, leaves no gap (each window starts no
\* later than its predecessor ends, so the windows cover [0, duration) exactly),
\* and ends with the only window whose end is duration.
C1_TilerCoversDuration ==
    /\ [](TilerValid /\ TilerReturned => TilerPost)
    /\ (TilerValid ~> TilerReturned)

\* A run of three or more windows with overlap whose last window is clipped.
C1_Witness ==
    /\ TilerValid /\ TilerReturned
    /\ Len(chunks) >= 3
    /\ config.chunk_overlap_sec > 0
    /\ chunks[Len(chunks)][2] - chunks[Len(chunks)][1] < config.chunk_duration_sec

\* ---- C2: merge_overlapping_or_adjacent
MergeReturned == pc = "cap"

\* C2: the merged list is sorted by start, every merged segment has
\* end > start, each segment starts more than the gap tolerance after its
\* predecessor ends, and an empty input gives an empty output.
C2_MergedSortedAndApart ==
    MergeReturned =>
        /\ \A k \in 1..Len(merged) : merged[k].end_sec > merged[k].start_sec
        /\ \A k \in 2..Len(merged) :
              /\ merged[k].start_sec >= merged[k - 1].start_sec
              /\ merged[k].start_sec > merged[k - 1].end_sec + gap_sec
        /\ (all_global_segments = <<>> => merged = <<>>)
        /\ (all_global_segments # <<>> => merged # <<>>)

\* Three inputs of which two were merged and one stayed apart.
C2_Witness ==
    /\ MergeReturned
    /\ Len(all_global_segments) = 3
    /\ Len(merged) = 2
    /\ merged[1] \notin Range(all_global_segments)

\* ---- C3: cap_total_duration
CapReturned == pc = "assemble"

\* C3: the durations of the segments cap_total_duration returns sum to at most
\* the budget.
C3_CappedWithinBudget ==
    CapReturned => TotalDuration(capped) <= config.highlight_max_duration_sec

\* A list longer than the budget whose boundary segment was truncated.
C3_Witness ==
    /\ CapReturned
    /\ TotalDuration(merged) > config.highlight_max_duration_sec
    /\ Len(capped) = 2
    /\ capped[2] \notin Range(merged)
    /\ TotalDuration(capped) = config.highlight_max_duration_sec

\* ---- C4: a failed analyzer call
\* C4: an analyzer failure for one window (analyzer error, ready-wait timeout)
\* does not end the run: no run fails with the analyzer's exception.
C4_AnalyzerFailureNotFatal ==
    ~(pc = "failed" /\ error.at = "analyze" /\ error.type \in AnalyzerErrors)

\* ---- C5: invalid windowing parameters
InvalidWindowing == config.chunk_overlap_sec >= config.chunk_duration_sec

ConfigurationErrors == {"FileNotFoundError", "ValueError"}

\* C5: with overlap >= windowLen the run fails with a configuration error and
\* no external collaborator is ever invoked.
C5_InvalidWindowingFailsFirst ==
    InvalidWindowing =>
        /\ calls = <<>>
        /\ pc \in {"validate", "failed"}
        /\ (pc = "failed" => error.type \in ConfigurationErrors)

\* ---- C6: a failed assembly
AssemblyStages == {"assemble", "concat", "probe_concat", "fade"}

\* C6: when the assembly fails at one of its external steps, no file lies at
\* the final output path; the path never holds a partial output.
C6_NoPartialOutput ==
    /\ (pc = "failed" /\ error.at \in AssemblyStages => output_file = "absent")
    /\ output_file # "partial"

\* ---- C7: normalize_to_original_time
NormalizeReturned == pc = "analyze" /\ i = 1

Clamp(x, lo, hi) == Max(lo, Min(x, hi))

\* The segments the claim describes: per moment, both local times clamped into
\* [0, localDuration]; the moment is kept when clampedEnd > clampedStart.
RECURSIVE ClampedSegments(_, _)
ClampedSegments(mapping, moms) ==
    IF moms = <<>> THEN <<>>
    ELSE LET m == moms[1]
             cs == Clamp(m.start_sec, 0, mapping.chunk_end_time)
             ce == Clamp(m.end_sec, 0, mapping.chunk_end_time)
             rest == ClampedSegments(mapping, Tail(moms))
         IN IF ce > cs
            THEN <<GlobalSegment(mapping.original_video_start_time + cs,
                                 mapping.original_video_start_time + ce,
                                 m.reason)>> \o rest
            ELSE rest

\* C7: the normalizer emits, in input order, one segment per moment whose
\* clamped local times satisfy clampedEnd > clampedStart, at sourceStart plus
\* the clamped times and with the moment's label; every emitted segment lies in
\* the window: sourceStart <= start < end <= sourceEnd.
C7_NormalizeClamps ==
    NormalizeReturned =>
        /\ all_global_segments = ClampedSegments(mappings[1], moments)
        /\ \A k \in 1..Len(all_global_segments) :
              LET g == all_global_segments[k] IN
              /\ mappings[1].original_video_start_time <= g.start_sec
              /\ g.start_sec < g.end_sec
              /\ g.end_sec <= mappings[1].original_video_end_time

\* Two moments, the first collapsing after clamping, the second reaching from
\* before the window to past its end.
C7_Witness ==
    /\ NormalizeReturned
    /\ Len(moments) = 2
    /\ moments[1].start_sec >= mappings[1].chunk_end_time
    /\ moments[1].end_sec > moments[1].start_sec
    /\ moments[2].start_sec < 0
    /\ moments[2].end_sec > mappings[1].chunk_end_time
    /\ mappings[1].original_video_start_time > 0
    /\ Len(all_global_segments) = 1

\* ---- C8, C9: parse_moments
ParseReturned == pc = "normalize"

\* A line of the grammar MOMENT: <number> <number> <description>, the numbers
\* being decimal numbers.
WellFormed(line) ==
    LET m == Match(Strip(line))
    IN m.ok /\ ~FloatRaises(m.g1) /\ ~FloatRaises(m.g2)

MomentOf(line) ==
    LET m == Match(Strip(line))
    IN HighlightMoment(FloatOf(m.g1), FloatOf(m.g2), Strip(m.g3))

\* C8: parse_moments fails on no text: a line that is not well formed (one
\* whose numbers hold several dots, say) is skipped, and the well-formed lines
\* of the same response are returned.
C8_ParseNeverFails ==
    /\ pc # "failed"
    /\ (ParseReturned /\ ~TextHasSentinel(raw) =>
          \A n \in 1..Len(raw) :
              (WellFormed(raw[n]) /\ KeepMoment(MomentOf(raw[n]).start_sec,
                                                MomentOf(raw[n]).end_sec))
                  => MomentOf(raw[n]) \in Range(moments))

RECURSIVE GrammarMoments(_)
GrammarMoments(lines) ==
    IF lines = <<>> THEN <<>>
    ELSE LET rest == GrammarMoments(Tail(lines)) IN
         IF /\ WellFormed(lines[1])
            /\ MomentOf(lines[1]).end_sec > MomentOf(lines[1]).start_sec
            /\ MomentOf(lines[1]).start_sec >= 0
         THEN <<MomentOf(lines[1])>> \o rest
         ELSE rest

\* C9: parse_moments returns the empty list when the text holds the sentinel;
\* otherwise it returns, in order, one moment per line of the grammar with
\* end > start and start >= 0, and none for any other line.
C9_ParseResult ==
    pc # "parse" =>
        /\ ParseReturned
        /\ moments = IF TextHasSentinel(raw) THEN <<>> ELSE GrammarMoments(raw)

\* ---- C10: merging twice
\* C10: merging the merged list again with the same tolerance gives the merged
\* list: the same segments in the same order with the same labels.
C10_MergeIdempotent ==
    MergeReturned => merge_overlapping_or_adjacent(merged, gap_sec) = merged

\* A merged list of two segments, one of them the union of two inputs: the
\* second merge has pairs to compare and a widened segment to keep.
C10_Witness ==
    /\ MergeReturned
    /\ Len(all_global_segments) = 3
    /\ Len(merged) = 2
    /\ merged[2] \notin Range(all_global_segments)

\* ---- C11: tiling, normalization, merge and cap together
\* C11: when every window's response is one moment spanning the window, the
\* merged list is the single segment (0, duration), and the capped total is
\* min(duration, maxTotal) when the budget exceeds 1 second.
C11_EndToEndCoversSource ==
    /\ pc \in {"cap", "assemble"} =>
          /\ Len(merged) = 1
          /\ merged[1].start_sec = 0
          /\ merged[1].end_sec = duration_sec
    /\ (pc = "assemble" /\ config.highlight_max_duration_sec > Ticks(1)) =>
          TotalDuration(capped) =
              Min(duration_sec, config.highlight_max_duration_sec)

\* Three or more overlapping windows merged into one segment longer than the
\* budget, which the cap truncated to the budget.
C11_Witness ==
    /\ pc = "assemble"
    /\ Len(mappings) >= 3
    /\ Len(all_global_segments) = Len(mappings)
    /\ config.chunk_overlap_sec > 0
    /\ config.highlight_max_duration_sec > Ticks(1)
    /\ duration_sec > config.highlight_max_duration_sec
    /\ TotalDuration(capped) = config.highlight_max_duration_sec

\* ---- C12: the cap is a greedy prefix
Prefix(segs, k) == SubSeq(segs, 1, k)

\* The length of the longest prefix of segs whose durations sum to at most budget.
LongestFittingPrefix(segs, budget) ==
    CHOOSE k \in 0..Len(segs) :
        /\ TotalDuration(Prefix(segs, k)) <= budget
        /\ \A j \in (k + 1)..Len(segs) : TotalDuration(Prefix(segs, j)) > budget

\* C12: the capped list is the longest prefix of the input that fits the
\* budget, unchanged, followed by a copy of the next input segment with its
\* start and label and with duration budget - (prefix total) if and only if
\* that remainder exceeds 1 second; no later input segment is in the output.
C12_CapGreedyPrefix ==
    CapReturned =>
        LET budget == config.highlight_max_duration_sec
            p == LongestFittingPrefix(merged, budget)
            remainder == budget - TotalDuration(Prefix(merged, p))
        IN /\ Len(capped) >= p
           /\ Prefix(capped, p) = Prefix(merged, p)
           /\ IF p < Len(merged) /\ remainder > Ticks(1)
              THEN /\ Len(capped) = p + 1
                   /\ capped[p + 1].start_sec = merged[p + 1].start_sec
                   /\ capped[p + 1].reason = merged[p + 1].reason
                   /\ SegDuration(capped[p + 1]) = remainder
              ELSE Len(capped) = p
           /\ \A k \in (p + 2)..Len(merged) :
                 \A n \in 1..Len(capped) : capped[n].reason # merged[k].reason

\* The first segment fits, the second does not and leaves a remainder of at most
\* 1 second, the third would fit and is dropped all the same.
C12_Witness ==
    /\ CapReturned
    /\ Len(merged) = 3
    /\ LongestFittingPrefix(merged, config.highlight_max_duration_sec) = 1
    /\ SegDuration(merged[1]) + SegDuration(merged[3])
          <= config.highlight_max_duration_sec
    /\ capped = <<merged[1]>>

\* ---- C13: the order of the stages of a run
StageRank(p) ==
    CASE p = "validate" -> 0
      [] p \in {"probe", "tile_enter", "tile_loop"} -> 1
      [] p = "extract" -> 2
      [] p \in {"analyze", "parse", "normalize"} -> 3
      [] p = "merge" -> 4
      [] p = "cap" -> 5
      [] p \in AssemblyStages -> 6
      [] p = "done" -> 7

\* The stage the run is in, or was in when it failed.
Stage == IF pc = "failed" THEN StageRank(error.at) ELSE StageRank(pc)

CallRank(c) ==
    CASE c = "prober" -> 1
      [] c = "extractor" -> 2
      [] c = "analyzer" -> 3
      [] c = "assembler" -> 6

Count(seq, x) == Cardinality({k \in 1..Len(seq) : seq[k] = x})

StagesInOrder ==
    \* validation before anything else
    /\ Stage = 0 => chunks = <<>> /\ calls = <<>>
    /\ Stage >= 1 => env.video_is_file /\ env.has_api_key
    \* the collaborators are called stage by stage, each within its stage
    /\ \A j, k \in 1..Len(calls) : j < k => CallRank(calls[j]) <= CallRank(calls[k])
    /\ \A k \in 1..Len(calls) : CallRank(calls[k]) <= Stage
    \* every window is extracted before the first analyzer call
    /\ Count(calls, "analyzer") > 0 =>
          /\ Count(calls, "extractor") = Len(chunks)
          /\ Len(mappings) = Len(chunks)
    \* the windows are analysed and normalized in increasing index order
    /\ \A k \in 1..Len(mappings) :
          /\ mappings[k].chunk_index = k - 1
          /\ k > 1 => mappings[k].original_video_start_time
                         > mappings[k - 1].original_video_start_time
    /\ pc = "analyze" => Count(calls, "analyzer") = i
    /\ pc \in {"parse", "normalize"} =>
          i < Len(mappings) /\ Count(calls, "analyzer") = i + 1
    \* the join: merge, cap and assembly see every window
    /\ Stage >= 4 =>
          /\ i = Len(mappings)
          /\ Count(calls, "analyzer") = Len(mappings)
    /\ Stage >= 5 =>
          merged = merge_overlapping_or_adjacent(all_global_segments, gap_sec)
    /\ Stage >= 6 =>
          capped = cap_total_duration(merged, config.highlight_max_duration_sec)

StageStep ==
    /\ pc \notin {"done", "failed"}
    /\ pc' # "failed" => StageRank(pc') >= StageRank(pc)
    /\ pc' = "merge" => pc = "analyze" /\ i = Len(mappings)
    /\ pc = "merge" => pc' = "cap"
    /\ pc = "cap" => pc' = "assemble"
    /\ pc = "normalize" => i' = i + 1 /\ pc' = "analyze"
    /\ all_global_segments' # all_global_segments => pc = "normalize"
    /\ merged' # merged => pc = "merge"
    /\ capped' # capped => pc = "cap"

\* C13: validation precedes tiling; every window is extracted before the first
\* analyzer call; windows are analysed and normalized in increasing index
\* order; merge, cap and assembly are each entered once, in that order, and only
\* after every window has been analysed and normalized.
C13_StageOrder ==
    /\ []StagesInOrder
    /\ [][StageStep]_vars

\* A finished run over two or more windows, with two segments assembled.
C13_Witness ==
    /\ pc = "done"
    /\ Len(mappings) >= 2
    /\ Count(calls, "extractor") = Len(mappings)
    /\ Count(calls, "analyzer") = Len(mappings)
    /\ Len(capped) >= 2

\* ---- C14: the ready-wait loop of analyze_chunk_with_gemini
WaitEnded == pc \in {"generate", "parse"} \/ (pc = "failed" /\ error.at = "wait_loop")

ReadyWaitSafe ==
    \* generate only after a poll has observed ACTIVE
    /\ (pc \in {"generate", "parse"} \/ Count(calls, "analyzer") > 0) =>
          wait.polled_at >= 0 /\ wait.state = "ACTIVE"
    \* the loop goes on only while no poll has observed ACTIVE or FAILED
    /\ pc = "wait_loop" => wait.state \notin {"ACTIVE", "FAILED"}
    \* the two ways of raising
    /\ (pc = "failed" /\ error.at = "wait_loop") =>
          \/ /\ error.type = "RuntimeError"
             /\ wait.polled_at >= 0 /\ wait.state = "FAILED"
          \/ /\ error.type = "TimeoutError"
             /\ wait.now >= wait.deadline
             /\ wait.state \notin {"ACTIVE", "FAILED"}
    \* every poll was issued before the deadline
    /\ wait.polled_at >= 0 => wait.polled_at < wait.deadline

ReadyWaitStep ==
    /\ pc = "wait_loop" => pc' \in {"wait_loop", "generate", "failed"}
    /\ pc' = "generate" => pc = "wait_loop"
    /\ wait'.polled_at # wait.polled_at =>
          pc = "wait_enter" \/ (pc = "wait_loop" /\ wait.now < wait.deadline)

\* C14: generate is called only after a poll has observed ACTIVE; the wait ends,
\* and ends by returning at an observed ACTIVE, by raising at an observed
\* FAILED, or by raising TimeoutError once the clock has reached the deadline
\* with no ACTIVE observed; no poll is issued once the deadline has passed.
C14_ReadyWait ==
    /\ []ReadyWaitSafe
    /\ [][ReadyWaitStep]_vars
    /\ (pc = "wait_loop" ~> WaitEnded)

\* The wait timed out after polls that never observed ACTIVE or FAILED.
C14_Witness ==
    /\ pc = "failed" /\ error.at = "wait_loop"
    /\ error.type = "TimeoutError"
    /\ wait.polled_at >= 0
    /\ wait.state = "PROCESSING"

\* ---- C15: a run that selects no segment
NothingSelected == Stage >= 6 /\ capped = <<>>

\* C15: when the capped list is empty the assembly raises without calling an
\* external tool and without writing the output path, and the run fails; a run
\* that returns its summary has selected at least one segment.
C15_EmptySelectionFails ==
    /\ [](NothingSelected =>
            /\ pc \in {"assemble", "failed"}
            /\ pc = "failed" => error = [type |-> "ValueError", at |-> "assemble"]
            /\ Count(calls, "assembler") = 0
            /\ output_file = "absent")
    /\ [](pc = "done" => Len(capped) >= 1)
    /\ [][NothingSelected => pc' = "failed"]_vars

\* Windows yielded segments, the cap admitted none of them, the assembly raised.
C15_Witness ==
    /\ pc = "failed"
    /\ error = [type |-> "ValueError", at |-> "assemble"]
    /\ merged # <<>>
    /\ capped = <<>>
    /\ calls[Len(calls)] = "analyzer"

====
